---- MODULE Spec2Model ----
(***************************************************************************)
(* Laser Engraving Shop API (src/main.py, src/schemas.py).                 *)
(*                                                                         *)
(* The state is the document store (one sequence of documents per          *)
(* collection), the identifier the store assigns next, and the response    *)
(* of the request handled last.  Spec runs the handlers one request after  *)
(* another (each handler is one step); ConcSpec runs seed_data and login   *)
(* as worker threads whose store operations interleave.                    *)
(*                                                                         *)
(* Strings that the code takes apart (emails, names) are sequences of      *)
(* one-character strings; an Optional[str] is [some, val]; an id string is *)
(* [wf, hex, upper]: whether it is 24 hex digits, the ObjectId it spells,  *)
(* and whether its digits are written in upper case.                       *)
(***************************************************************************)
EXTENDS Integers, Sequences, FiniteSets, TLC

VARIABLES
    db,       \* TRUE: database configured (db is not None)
    store,    \* collection name -> sequence of documents
    nextId,   \* the ObjectId the store assigns to the next insert
    req,      \* payload of the request handled last
    resp,     \* response of the request handled last
    logins,   \* history: <<email, id>> of every login answered 200
    pc,       \* ConcSpec: thread -> position in its handler
    loc       \* ConcSpec: thread -> its local variables

vars == <<db, store, nextId, req, resp, logins, pc, loc>>

----------------------------------------------------------------------------
(* Bounds *)

MaxOrders == 1     \* order requests that pass validation
NumProcs  == 2     \* worker threads of ConcSpec

----------------------------------------------------------------------------
(* Strings and optionals *)

None      == [some |-> FALSE, val |-> <<>>]
Some(v)   == [some |-> TRUE, val |-> v]

EmailAB   == <<"a", ".", "b", "@", "e", "x", ".", "c", "o", "m">>
EmailNoAt == <<"n", "o", "a", "t">>
NameAnn   == <<"A", "n", "n">>
NameAB    == <<"a", ".", "b">>

Names     == {None, Some(<<>>), Some(NameAnn)}

\* s.split(sep)[0]: the part of s before the first sep; all of s when sep
\* does not occur in it.
RECURSIVE SplitFirst(_, _)
SplitFirst(s, sep) ==
    IF s = <<>> \/ Head(s) = sep THEN <<>>
    ELSE <<Head(s)>> \o SplitFirst(Tail(s), sep)

----------------------------------------------------------------------------
(* Identifiers: bson.ObjectId and its string form *)

InvalidId == -1

\* str(ObjectId): 24 lower-case hex digits
IdToString(oid) == [wf |-> TRUE, hex |-> oid, upper |-> FALSE]

\* ObjectId(s): raises InvalidId unless s is 24 hex digits; the digits are
\* read case-insensitively.
ObjectId(s) == IF s.wf THEN s.hex ELSE InvalidId

MalformedId  == [wf |-> FALSE, hex |-> 0, upper |-> FALSE]
UnassignedId == [wf |-> TRUE, hex |-> 0, upper |-> FALSE]
UpperCase(s) == [s EXCEPT !.upper = TRUE]

----------------------------------------------------------------------------
(* The document store *)

\* an exact-match filter is a function field -> value; {} is <<>>
Matches(doc, filt) ==
    \A f \in DOMAIN filt : f \in DOMAIN doc /\ doc[f] = filt[f]

\* db[coll].count_documents(filt)
count_documents(st, coll, filt) ==
    Cardinality({i \in DOMAIN st[coll] : Matches(st[coll][i], filt)})

\* db[coll].find_one(filt): the first match, or None
find_one(st, coll, filt) ==
    LET hits == {i \in DOMAIN st[coll] : Matches(st[coll][i], filt)}
    IN  IF hits = {} THEN None
        ELSE Some(st[coll][CHOOSE i \in hits : \A j \in hits : i <= j])

\* get_documents(coll, filt): every match, in store order
get_documents(st, coll, filt) ==
    SelectSeq(st[coll], LAMBDA d : Matches(d, filt))

\* create_document(coll, data): appends data under a fresh identifier and
\* returns the identifier's string form
create_document(st, nid, coll, data) ==
    [store  |-> [st EXCEPT ![coll] = Append(@, data @@ [_id |-> nid])],
     nextId |-> nid + 1,
     id     |-> IdToString(nid)]

\* serialize(doc): the document with _id replaced by id = str(_id)
serialize(doc) ==
    [f \in (DOMAIN doc \ {"_id"}) \cup {"id"} |->
        IF f = "id" THEN IdToString(doc["_id"]) ELSE doc[f]]

SerializeAll(docs) == [i \in DOMAIN docs |-> serialize(docs[i])]

----------------------------------------------------------------------------
(* Responses *)

Ok(op, body)          == [op |-> op, status |-> 200, body |-> body]
HTTPException(op, code, detail) ==
    [op |-> op, status |-> code, body |-> [detail |-> detail]]
\* an exception no handler catches: the framework answers 500
Unhandled(op, exc)    == [op |-> op, status |-> 500, body |-> [error |-> exc]]

NoResp == [op |-> "none", status |-> 0, body |-> <<>>]
NoReq  == [op |-> "none"]

----------------------------------------------------------------------------
(* seed_data *)

SeedCategories ==
    << [name |-> "Phone Cases", slug |-> "phone-cases"],
       [name |-> "Wood Gifts",  slug |-> "wood-gifts"],
       [name |-> "Metal Cards", slug |-> "metal-cards"] >>

SeedProducts ==
    << [title |-> "Walnut Coaster Set",     category |-> "wood-gifts",  in_stock |-> TRUE],
       [title |-> "Aluminum Business Card", category |-> "metal-cards", in_stock |-> TRUE],
       [title |-> "Matte Black Phone Case", category |-> "phone-cases", in_stock |-> TRUE] >>

SeedPortfolio ==
    << [title |-> "Startup Swag",     client_name |-> "Veridian"],
       [title |-> "Wedding Keepsake", client_name |-> "Eden & Kai"] >>

SeedDocs(coll) ==
    CASE coll = "category"  -> SeedCategories
      [] coll = "product"   -> SeedProducts
      [] coll = "portfolio" -> SeedPortfolio

\* key of the created dict that counts the inserts into coll
CreatedKey(coll) ==
    CASE coll = "category"  -> "categories"
      [] coll = "product"   -> "products"
      [] coll = "portfolio" -> "portfolio"

SeedOrder == <<"category", "product", "portfolio">>

ZeroCreated == [categories |-> 0, products |-> 0, portfolio |-> 0]

\* a guard that lets every block run
SeedGuardAlways(st, coll) == TRUE

\* the guard of each block: if db[coll].count_documents({}) == 0
SeedGuard(st, coll) == count_documents(st, coll, <<>>) = 0

\* one block of seed_data: under the guard, insert the literal documents of
\* coll one by one, counting each in created
RECURSIVE InsertEach(_, _, _, _)
InsertEach(s, coll, docs, created) ==
    IF docs = <<>> THEN [store |-> s.store, nextId |-> s.nextId, created |-> created]
    ELSE LET r == create_document(s.store, s.nextId, coll, Head(docs))
         IN  InsertEach(r, coll, Tail(docs),
                        [created EXCEPT ![CreatedKey(coll)] = @ + 1])

SeedBlock(s, coll) ==
    IF SeedGuard(s.store, coll)
    THEN InsertEach(s, coll, SeedDocs(coll), s.created)
    ELSE s

seed_data(isDb, st, nid) ==
    IF ~isDb
    THEN [store |-> st, nextId |-> nid,
          resp |-> HTTPException("seed", 500, "Database not configured")]
    ELSE LET s0 == [store |-> st, nextId |-> nid, created |-> ZeroCreated]
             s1 == SeedBlock(s0, "category")
             s2 == SeedBlock(s1, "product")
             s3 == SeedBlock(s2, "portfolio")
         IN  [store |-> s3.store, nextId |-> s3.nextId,
              resp |-> Ok("seed", [status |-> "ok", created |-> s3.created])]

----------------------------------------------------------------------------
(* list_categories, list_products, list_portfolio *)

\* get_documents without a configured database signals StoreUnavailable
ListAll(isDb, st, op, coll, filt) ==
    IF ~isDb THEN Unhandled(op, "StoreUnavailable")
    ELSE Ok(op, SerializeAll(get_documents(st, coll, filt)))

list_categories(isDb, st) == ListAll(isDb, st, "categories", "category", <<>>)

\* a filter built as if by "if category is not None"
ProductFilterNoTruthTest(category) ==
    IF category.some THEN [category |-> category.val] ELSE <<>>

\* filt = {"category": category} if category else {}
ProductFilter(category) ==
    IF category.some /\ category.val # "" THEN [category |-> category.val] ELSE <<>>

list_products(isDb, st, category) ==
    ListAll(isDb, st, "products", "product", ProductFilter(category))

list_portfolio(isDb, st) == ListAll(isDb, st, "portfolio", "portfolio", <<>>)

----------------------------------------------------------------------------
(* login *)

\* a name that ignores payload.name
LoginNameAlwaysLocal(payload) == SplitFirst(payload.email, "@")

\* payload.name or payload.email.split("@")[0]
LoginName(payload) ==
    IF payload.name.some /\ payload.name.val # <<>>
    THEN payload.name.val
    ELSE SplitFirst(payload.email, "@")

\* a lookup that never finds the user
LoginLookupNone(isDb, st, payload) == None

\* existing = db["user"].find_one({"email": payload.email}) if db else None
\* ("if db" is read as "db is not None": a configured database is truthy)
LoginLookup(isDb, st, payload) ==
    IF isDb THEN find_one(st, "user", [email |-> payload.email]) ELSE None

\* User(name=..., email=payload.email)
NewUser(payload) ==
    [name |-> LoginName(payload), email |-> payload.email, avatar_url |-> None]

login(isDb, st, nid, payload) ==
    LET existing == LoginLookup(isDb, st, payload)
    IN  IF existing.some
        THEN [store |-> st, nextId |-> nid,
              resp |-> Ok("login", serialize(existing.val))]
        ELSE IF ~isDb
        THEN [store |-> st, nextId |-> nid,
              resp |-> Unhandled("login", "StoreUnavailable")]
        ELSE LET r       == create_document(st, nid, "user", NewUser(payload))
                 created == find_one(r.store, "user", [_id |-> ObjectId(r.id)])
             IN  [store |-> r.store, nextId |-> r.nextId,
                  resp |-> Ok("login", serialize(created.val))]

----------------------------------------------------------------------------
(* create_order *)

\* an OrderItem without the ge=1 constraint
OrderItemValidAnyQty(it) == TRUE

\* schemas.OrderItem: qty: int = Field(1, ge=1)
OrderItemValid(it) == it.qty >= 1

\* a loop that looks at the first item only
ValidateItemsFirstOnly(isDb, st, items) ==
    IF items = <<>> THEN NoResp
    ELSE LET it == Head(items)
         IN  IF ~isDb THEN Unhandled("order", "TypeError")
             ELSE IF ObjectId(it.product_id) = InvalidId
             THEN Unhandled("order", "InvalidId")
             ELSE IF ~find_one(st, "product", [_id |-> ObjectId(it.product_id)]).some
             THEN HTTPException("order", 404, <<"Product not found: ", it.product_id>>)
             ELSE NoResp

\* the loop "for it in payload.items": the response that ends the request
\* at the first item that fails, or NoResp when every item passes
RECURSIVE ValidateItems(_, _, _)
ValidateItems(isDb, st, items) ==
    IF items = <<>> THEN NoResp
    ELSE LET it == Head(items)
         IN  IF ~isDb THEN Unhandled("order", "TypeError")
             ELSE IF ObjectId(it.product_id) = InvalidId
             THEN Unhandled("order", "InvalidId")
             ELSE IF ~find_one(st, "product", [_id |-> ObjectId(it.product_id)]).some
             THEN HTTPException("order", 404, <<"Product not found: ", it.product_id>>)
             ELSE ValidateItems(isDb, st, Tail(items))

\* Order(user_email=..., items=[OrderItem(...) ...], ..., status="pending")
NewOrder(payload) ==
    [user_email    |-> payload.user_email,
     items         |-> [i \in DOMAIN payload.items |->
                          [product_id |-> payload.items[i].product_id,
                           qty        |-> payload.items[i].qty]],
     status        |-> "pending",
     notes         |-> payload.notes,
     contact_phone |-> payload.contact_phone]

create_order(isDb, st, nid, payload) ==
    LET failed == ValidateItems(isDb, st, payload.items)
    IN  IF failed.op # "none"
        THEN [store |-> st, nextId |-> nid, resp |-> failed]
        ELSE IF \E i \in DOMAIN payload.items : ~OrderItemValid(payload.items[i])
        THEN [store |-> st, nextId |-> nid,
              resp |-> Unhandled("order", "ValidationError")]
        ELSE IF ~isDb
        THEN [store |-> st, nextId |-> nid,
              resp |-> Unhandled("order", "StoreUnavailable")]
        ELSE LET r       == create_document(st, nid, "order", NewOrder(payload))
                 created == find_one(r.store, "order", [_id |-> ObjectId(r.id)])
             IN  [store |-> r.store, nextId |-> r.nextId,
                  resp |-> Ok("order", serialize(created.val))]

----------------------------------------------------------------------------
(* read_root *)

read_root == Ok("root", [message |-> "Laser Engraving Shop Backend"])

----------------------------------------------------------------------------
(* Initial states: the store as the process finds it at start-up.  Each    *)
(* The product collection is empty or already holds products of its own,   *)
(* and so are the category and portfolio collections (both or neither);    *)
(* nothing has logged in or ordered yet.                                   *)

Procs == 1 .. NumProcs

PreCategories ==
    << [_id |-> 1, name |-> "Custom", slug |-> "custom"] >>
PreProducts ==
    << [_id |-> 2, title |-> "Oak Sign",    category |-> "wood-gifts", in_stock |-> TRUE],
       [_id |-> 3, title |-> "Maple Board", category |-> "wood-gifts", in_stock |-> FALSE],
       [_id |-> 4, title |-> "Sample",      category |-> "",           in_stock |-> TRUE] >>
PrePortfolio ==
    << [_id |-> 5, title |-> "Shop Sign", client_name |-> "Corner Cafe"] >>

FirstFreeId == 6

NoLoc == [op |-> "none"]

Init ==
    /\ db \in BOOLEAN
    /\ \E cf \in {<<<<>>, <<>>>>, <<PreCategories, PrePortfolio>>},
          p \in {<<>>, PreProducts} :
          store = [category |-> cf[1], product |-> p, portfolio |-> cf[2],
                   user |-> <<>>, order |-> <<>>]
    /\ nextId = FirstFreeId
    /\ req = NoReq
    /\ resp = NoResp
    /\ logins = {}
    /\ pc = [p \in Procs |-> "idle"]
    /\ loc = [p \in Procs |-> NoLoc]

----------------------------------------------------------------------------
(* Request inputs *)

CategoryParams ==
    {None, Some(""), Some("wood-gifts"), Some("no-such")}

LoginPayloads ==
    [email : {EmailAB}, name : Names] \cup [email : {EmailNoAt}, name : {None}]

\* the carts a client sends: items name a stored product by the id string
\* the API returned (P) or by the same id typed in upper case (U), a
\* well-formed id that names nothing (missing, Missing2) or a string that
\* is no id (MalformedId); quantities are 1, 2 or the invalid 0
Item(pid, qty) == [product_id |-> pid, qty |-> qty]

Missing2 == UpperCase(UnassignedId)

CartsWithoutProduct ==
    { <<>>,
      <<Item(UnassignedId, 1)>>,
      <<Item(MalformedId, 1)>>,
      <<Item(UnassignedId, 1), Item(MalformedId, 1)>>,
      <<Item(MalformedId, 1), Item(UnassignedId, 1)>>,
      <<Item(Missing2, 1), Item(UnassignedId, 1)>>,
      <<Item(UnassignedId, 0)>> }

CartsWithProduct(P, L) ==
    LET U == UpperCase(P)
    IN  { <<Item(P, 1)>>,
          <<Item(L, 1), Item(U, 2)>>,
          <<Item(P, 0)>>,
          <<Item(P, 1), Item(L, 0)>>,
          <<Item(P, 1), Item(UnassignedId, 1)>>,
          <<Item(UnassignedId, 1), Item(P, 1)>>,
          <<Item(U, 1), Item(MalformedId, 1)>>,
          <<Item(P, 0), Item(UnassignedId, 1)>> }

Carts(st) ==
    CartsWithoutProduct \cup
        IF st.product = <<>> THEN {}
        ELSE CartsWithProduct(IdToString(st.product[1]._id),
                              IdToString(st.product[Len(st.product)]._id))

OrderPayloads(st) ==
    [user_email : {EmailAB}, items : Carts(st),
     notes : {None}, contact_phone : {None}]

----------------------------------------------------------------------------
(* Spec: one request after another, each handler one step *)

Handled(r, q) ==
    /\ store' = r.store
    /\ nextId' = r.nextId
    /\ resp' = r.resp
    /\ req' = q

Seed ==
    /\ Handled(seed_data(db, store, nextId), [op |-> "seed"])
    /\ UNCHANGED <<db, logins, pc, loc>>

ReadRoot ==
    /\ resp' = read_root
    /\ req' = [op |-> "root"]
    /\ UNCHANGED <<db, store, nextId, logins, pc, loc>>

ListCategories ==
    /\ resp' = list_categories(db, store)
    /\ req' = [op |-> "categories"]
    /\ UNCHANGED <<db, store, nextId, logins, pc, loc>>

ListProducts ==
    \E category \in CategoryParams :
        /\ resp' = list_products(db, store, category)
        /\ req' = [op |-> "products", category |-> category]
        /\ UNCHANGED <<db, store, nextId, logins, pc, loc>>

ListPortfolio ==
    /\ resp' = list_portfolio(db, store)
    /\ req' = [op |-> "portfolio"]
    /\ UNCHANGED <<db, store, nextId, logins, pc, loc>>

Login ==
    \E payload \in LoginPayloads :
        LET r == login(db, store, nextId, payload)
        IN  /\ Handled(r, [op |-> "login", payload |-> payload])
            /\ logins' = IF r.resp.status = 200
                         THEN logins \cup {<<payload.email, r.resp.body.id>>}
                         ELSE logins
            /\ UNCHANGED <<db, pc, loc>>

CreateOrder ==
    \E payload \in OrderPayloads(store) :
        LET r == create_order(db, store, nextId, payload)
        IN  /\ r.resp.status = 200 => Len(store.order) < MaxOrders
            /\ Handled(r, [op |-> "order", payload |-> payload])
            /\ UNCHANGED <<db, logins, pc, loc>>

Next ==
    \/ Seed
    \/ ReadRoot
    \/ ListCategories
    \/ ListProducts
    \/ ListPortfolio
    \/ Login
    \/ CreateOrder

Spec == Init /\ [][Next]_vars

----------------------------------------------------------------------------
(* ConcSpec: the handlers are plain "def" routes, which the framework runs *)
(* on a pool of worker threads.  Each thread handles one seed or login     *)
(* request; every store operation (count_documents, find_one, one          *)
(* create_document) is one step, and steps of different threads            *)
(* interleave.                                                             *)

Goto(p, label, l) ==
    /\ pc' = [pc EXCEPT ![p] = label]
    /\ loc' = [loc EXCEPT ![p] = l]

\* where seed_data goes after block k: the next block's guard, or the return
AfterBlock(k) == IF k < Len(SeedOrder) THEN "seed_check" ELSE "seed_return"

\* seed_data, lines 42-45
SeedStart(p) ==
    /\ pc[p] = "idle"
    /\ IF ~db
       THEN /\ resp' = HTTPException("seed", 500, "Database not configured")
            /\ Goto(p, "done", [op |-> "seed"])
       ELSE /\ resp' = resp
            /\ Goto(p, "seed_check",
                    [op |-> "seed", block |-> 1, todo |-> <<>>,
                     created |-> ZeroCreated])
    /\ req' = [op |-> "seed"]
    /\ UNCHANGED <<db, store, nextId, logins>>

\* if db[coll].count_documents({}) == 0
SeedCheck(p) ==
    /\ pc[p] = "seed_check"
    /\ LET k    == loc[p].block
           coll == SeedOrder[k]
       IN  IF SeedGuard(store, coll)
           THEN Goto(p, "seed_insert", [loc[p] EXCEPT !.todo = SeedDocs(coll)])
           ELSE Goto(p, AfterBlock(k),
                     [loc[p] EXCEPT !.block = IF k < Len(SeedOrder) THEN k + 1 ELSE k])
    /\ UNCHANGED <<db, store, nextId, req, resp, logins>>

\* one turn of the for loop: create_document(coll, c); created[...] += 1
SeedInsert(p) ==
    /\ pc[p] = "seed_insert"
    /\ LET k    == loc[p].block
           coll == SeedOrder[k]
           r    == create_document(store, nextId, coll, Head(loc[p].todo))
           l    == [loc[p] EXCEPT !.todo = Tail(@),
                                  !.created[CreatedKey(coll)] = @ + 1]
       IN  /\ store' = r.store
           /\ nextId' = r.nextId
           /\ IF l.todo # <<>>
              THEN Goto(p, "seed_insert", l)
              ELSE Goto(p, AfterBlock(k),
                        [l EXCEPT !.block = IF k < Len(SeedOrder) THEN k + 1 ELSE k])
    /\ UNCHANGED <<db, req, resp, logins>>

\* return {"status": "ok", "created": created}
SeedReturn(p) ==
    /\ pc[p] = "seed_return"
    /\ resp' = Ok("seed", [status |-> "ok", created |-> loc[p].created])
    /\ Goto(p, "done", [op |-> "seed"])
    /\ UNCHANGED <<db, store, nextId, req, logins>>

\* login: existing = db["user"].find_one(...) if db else None; if existing: return
LoginFind(p) ==
    /\ pc[p] = "idle"
    /\ \E payload \in LoginPayloads :
          LET existing == LoginLookup(db, store, payload)
          IN  /\ req' = [op |-> "login", payload |-> payload]
              /\ IF existing.some
                 THEN /\ resp' = Ok("login", serialize(existing.val))
                      /\ logins' = logins \cup {<<payload.email, resp'.body.id>>}
                      /\ Goto(p, "done", [op |-> "login"])
                 ELSE /\ UNCHANGED <<resp, logins>>
                      /\ Goto(p, "login_insert", [op |-> "login", payload |-> payload])
    /\ UNCHANGED <<db, store, nextId>>

\* user = User(...); uid = create_document("user", user)
LoginInsert(p) ==
    /\ pc[p] = "login_insert"
    /\ IF ~db
       THEN /\ resp' = Unhandled("login", "StoreUnavailable")
            /\ Goto(p, "done", [op |-> "login"])
            /\ UNCHANGED <<store, nextId>>
       ELSE LET r == create_document(store, nextId, "user", NewUser(loc[p].payload))
            IN  /\ store' = r.store
                /\ nextId' = r.nextId
                /\ resp' = resp
                /\ Goto(p, "login_refetch",
                        [op |-> "login", payload |-> loc[p].payload, uid |-> r.id])
    /\ UNCHANGED <<db, req, logins>>

\* created = db["user"].find_one({"_id": ObjectId(uid)}); return serialize(created)
LoginRefetch(p) ==
    /\ pc[p] = "login_refetch"
    /\ LET created == find_one(store, "user", [_id |-> ObjectId(loc[p].uid)])
       IN  /\ resp' = Ok("login", serialize(created.val))
           /\ logins' = logins \cup {<<loc[p].payload.email, resp'.body.id>>}
    /\ Goto(p, "done", [op |-> "login"])
    /\ UNCHANGED <<db, store, nextId, req>>

ConcNext ==
    \E p \in Procs :
        \/ SeedStart(p)
        \/ SeedCheck(p)
        \/ SeedInsert(p)
        \/ SeedReturn(p)
        \/ LoginFind(p)
        \/ LoginInsert(p)
        \/ LoginRefetch(p)

ConcSpec == Init /\ [][ConcNext]_vars

----------------------------------------------------------------------------
(* Vocabulary of the properties *)

Seedable == {"category", "product", "portfolio"}

Count(st, coll) == Len(st[coll])

\* the request handled last was op, and the database is configured
Handling(op) == db /\ req.op = op

\* an id string resolves when it spells the identifier of a stored product
Resolves(st, pid) ==
    pid.wf /\ \E i \in DOMAIN st.product : st.product[i]._id = pid.hex

Unresolved(st, items) ==
    {i \in DOMAIN items : ~Resolves(st, items[i].product_id)}

FirstOf(S) == CHOOSE i \in S : \A j \in S : i <= j

\* the part of an email before its first "@"; the whole email if it has none
AtPositions(e) == {i \in DOMAIN e : e[i] = "@"}
LocalPart(e) ==
    IF AtPositions(e) = {} THEN e ELSE SubSeq(e, 1, FirstOf(AtPositions(e)) - 1)

UsersWithEmail(st, e) == {i \in DOMAIN st.user : st.user[i].email = e}

\* the documents of coll that carry the fields of the starter document d
Copies(st, coll, d) ==
    {i \in DOMAIN st[coll] : [f \in DOMAIN d |-> st[coll][i][f]] = d}

----------------------------------------------------------------------------
(* C1: Seed is idempotent when requests run one after another.  A Seed     *)
(* that answers ok leaves every collection that was non-empty at its size  *)
(* and reports 0 created for it; a Seed that directly follows a Seed       *)
(* leaves all three counts as they were and reports 0 for all three.       *)
C1_SeedIdempotent ==
    [][ (req'.op = "seed" /\ resp'.status = 200) =>
          /\ \A coll \in Seedable :
                Count(store, coll) > 0 =>
                    /\ Count(store', coll) = Count(store, coll)
                    /\ resp'.body.created[CreatedKey(coll)] = 0
          /\ (req.op = "seed" /\ resp.status = 200) =>
                /\ \A coll \in Seedable : Count(store', coll) = Count(store, coll)
                /\ resp'.body.created = ZeroCreated ]_vars

\* a Seed that found the starter set of an earlier Seed and created nothing
C1_Witness ==
    /\ req.op = "seed" /\ resp.status = 200
    /\ resp.body.created = ZeroCreated
    /\ \A coll \in Seedable :
          /\ Count(store, coll) = Len(SeedDocs(coll))
          /\ \A k \in DOMAIN SeedDocs(coll) :
                Copies(store, coll, SeedDocs(coll)[k]) # {}

(* C2: Login is idempotent by email when requests run one after another.   *)
(* A login with an email that an earlier login was answered for returns    *)
(* the identifier returned then, and leaves the user collection unchanged. *)
C2_LoginIdempotent ==
    [][ (req'.op = "login" /\ resp'.status = 200) =>
          \A x \in logins :
              x[1] = req'.payload.email =>
                  /\ resp'.body.id = x[2]
                  /\ store'.user = store.user ]_vars

\* a second login for a.b@ex.com, now naming Ann, answered with the one
\* user the first login stored
C2_Witness ==
    /\ req.op = "login" /\ resp.status = 200
    /\ req.payload = [email |-> EmailAB, name |-> Some(NameAnn)]
    /\ Len(store.user) = 1
    /\ store.user[1].name = NameAB
    /\ resp.body.id = IdToString(store.user[1]._id)

(* C3: Create Order is all-or-nothing.  If any item's product_id does not  *)
(* resolve to a stored product, the request is answered 404 "Product not   *)
(* found" naming the first such id in item order, and the order collection *)
(* is unchanged.                                                           *)
C3_AllOrNothing ==
    [][ (db /\ req'.op = "order"
            /\ Unresolved(store, req'.payload.items) # {}) =>
          /\ resp'.status = 404
          /\ resp'.body =
                [detail |-> <<"Product not found: ",
                              req'.payload.items[
                                  FirstOf(Unresolved(store, req'.payload.items))
                              ].product_id>>]
          /\ store'.order = store.order ]_vars

(* C4: Referential integrity of orders.  Every item of every stored order  *)
(* carries a product_id that resolves to a stored product; an order        *)
(* request with no items is accepted and stored.                           *)
C4_OrderItemsReferToProducts ==
    /\ \A o \in DOMAIN store.order :
          \A i \in DOMAIN store.order[o].items :
              Resolves(store, store.order[o].items[i].product_id)
    /\ (Handling("order") /\ req.payload.items = <<>>) =>
          /\ resp.status = 200
          /\ resp.body.items = <<>>
          /\ \E o \in DOMAIN store.order :
                /\ IdToString(store.order[o]._id) = resp.body.id
                /\ store.order[o].items = <<>>

\* a stored order of two items, one naming its product in upper case
C4_Witness ==
    \E o \in DOMAIN store.order :
        /\ Len(store.order[o].items) = 2
        /\ \E i \in DOMAIN store.order[o].items :
              store.order[o].items[i].product_id.upper

(* C5: a Create Order request with a product_id that is no well-formed     *)
(* identifier is answered with a client error (4xx), and no order is       *)
(* inserted.                                                               *)
C5_MalformedIdIsClientError ==
    [][ (db /\ req'.op = "order"
            /\ \E i \in DOMAIN req'.payload.items :
                  ~req'.payload.items[i].product_id.wf) =>
          /\ resp'.status >= 400 /\ resp'.status < 500
          /\ store'.order = store.order ]_vars

(* C6: Quantity invariant.  Every item of every stored order has qty >= 1, *)
(* and an order request with an item of qty <= 0 inserts no order, also    *)
(* when all its product_ids resolve.                                       *)
C6_QtyAtLeastOne ==
    /\ [](\A o \in DOMAIN store.order :
            \A i \in DOMAIN store.order[o].items :
                store.order[o].items[i].qty >= 1)
    /\ [][ (req'.op = "order"
              /\ \E i \in DOMAIN req'.payload.items :
                    req'.payload.items[i].qty <= 0) =>
            /\ resp'.status # 200
            /\ store'.order = store.order ]_vars

\* an order request of qty 0 for a stored product, refused
C6_Witness ==
    /\ Handling("order")
    /\ Unresolved(store, req.payload.items) = {}
    /\ \E i \in DOMAIN req.payload.items : req.payload.items[i].qty <= 0
    /\ resp.status = 500
    /\ store.order = <<>>

----------------------------------------------------------------------------
(* List Products *)

\* the serialized products whose category field equals v, in store order
ProductsOfCategory(st, v) ==
    SerializeAll(SelectSeq(st.product, LAMBDA d : d.category = v))

AllProducts(st) == SerializeAll(st.product)

(* C7 as claimed: whenever a category value is supplied, the empty string  *)
(* included, List Products returns exactly the products whose category     *)
(* equals it; only without a category does it return all products.         *)
C7_FilterEveryString ==
    (Handling("products") /\ resp.status = 200) =>
        resp.body = IF req.category.some
                    THEN ProductsOfCategory(store, req.category.val)
                    ELSE AllProducts(store)

(* C7 as amended: whenever a non-empty category value is supplied, List    *)
(* Products returns exactly the products whose category equals it; without *)
(* a category, or with the empty string, it returns all products.          *)
C7_FilterNonEmptyString ==
    Handling("products") =>
        /\ resp.status = 200
        /\ resp.body = IF req.category.some /\ req.category.val # ""
                       THEN ProductsOfCategory(store, req.category.val)
                       ELSE AllProducts(store)

\* category "wood-gifts" answered with two of three products, none of them
\* of another category
C7_Witness ==
    /\ Handling("products")
    /\ req.category = Some("wood-gifts")
    /\ Len(resp.body) = 2
    /\ Len(store.product) = 3
    /\ \A i \in DOMAIN resp.body : resp.body[i].category = "wood-gifts"

----------------------------------------------------------------------------
(* Login naming *)

NoUserYet(st, e) == UsersWithEmail(st, e) = {}

\* Login created exactly one user: the collection grew by one document,
\* which carries email e and name n and is the record returned
CreatedUser(e, n) ==
    /\ Len(store'.user) = Len(store.user) + 1
    /\ SubSeq(store'.user, 1, Len(store.user)) = store.user
    /\ LET u == store'.user[Len(store'.user)]
       IN  /\ u.email = e
           /\ u.name = n
           /\ resp'.body = serialize(u)

\* Login returned the stored user of email e as it was
ReturnedStored(e) ==
    /\ store'.user = store.user
    /\ resp'.body = serialize(store.user[FirstOf(UsersWithEmail(store, e))])

(* C8 as claimed: a Login that finds no user with the email creates        *)
(* exactly one user with that email, named as given if a name was given    *)
(* and else by the part of the email before the first "@"; for an existing *)
(* email the stored record is returned unchanged.                          *)
C8_GivenNameIfGiven ==
    [][ (db /\ req'.op = "login") =>
          LET e == req'.payload.email
              n == req'.payload.name
          IN  IF NoUserYet(store, e)
              THEN CreatedUser(e, IF n.some THEN n.val ELSE LocalPart(e))
              ELSE ReturnedStored(e) ]_vars

(* C8 as amended: the created user is named as given if a non-empty name   *)
(* was given, and else by the part of the email before the first "@" (the  *)
(* whole email if it has no "@"); the rest as claimed.                     *)
C8_GivenNameIfNonEmpty ==
    [][ (db /\ req'.op = "login") =>
          LET e == req'.payload.email
              n == req'.payload.name
          IN  /\ resp'.status = 200
              /\ IF NoUserYet(store, e)
                 THEN CreatedUser(e, IF n.some /\ n.val # <<>>
                                     THEN n.val ELSE LocalPart(e))
                 ELSE ReturnedStored(e) ]_vars

\* a login for a.b@ex.com with the empty name that left a single user
\* named "a.b"
C8_Witness ==
    /\ Handling("login")
    /\ req.payload = [email |-> EmailAB, name |-> Some(<<>>)]
    /\ Len(store.user) = 1
    /\ store.user[1].name = NameAB
    /\ resp.body.name = NameAB
    /\ logins = {<<EmailAB, resp.body.id>>}

----------------------------------------------------------------------------
(* C9: Seeding never duplicates data under concurrency.  In every          *)
(* interleaving of Seed requests, no seedable collection holds more than   *)
(* one copy of any document of its starter set.                            *)
C9_NoDuplicateSeed ==
    \A coll \in Seedable :
        \A k \in DOMAIN SeedDocs(coll) :
            Cardinality(Copies(store, coll, SeedDocs(coll)[k])) <= 1

(* C10: Email uniqueness under concurrency.  In every interleaving of      *)
(* Login requests, no two documents of the user collection carry the same  *)
(* email.                                                                  *)
C10_UniqueEmail ==
    \A i, j \in DOMAIN store.user :
        store.user[i].email = store.user[j].email => i = j

====
